---- MODULE Spec2Model ----
(***************************************************************************)
(* NovaControl decision pipeline: SafetyGuard (actions/safety_guard.py),   *)
(* IntentEngine (intent/intent_engine.py), MouseController                 *)
(* (actions/mouse_controller.py) and the EventBus hand-off                 *)
(* (core/event_bus.py).                                                    *)
(*                                                                         *)
(* Time is the wall clock time.time(), kept in integer milliseconds.       *)
(* Confidence and normalised coordinates are kept in integer percent       *)
(* (0.6 is 60).  Python's None is the integer None for numeric fields and  *)
(* the string NoStr for string fields.                                     *)
(***************************************************************************)
EXTENDS Integers, Sequences, FiniteSets, TLC

VARIABLES clock, guard, eng, mouse, bus, hist, orch

vars == <<clock, guard, eng, mouse, bus, hist, orch>>

(* ------------------------- program constants --------------------------- *)

click_cooldown_ms == 250
drag_hold_ms == 600
min_confidence == 60
auto_disarm_on_tracking_loss == TRUE
fist_hold_ms == 100

(* ------------------------------ bounds --------------------------------- *)

\* first value of time.time() seen by the program; far above every cooldown
ClockStart == 1000

\* clock granularity and horizon of the Safety Guard specification
GuardTickMs == click_cooldown_ms \div 5
GuardTicks == 6

\* clock granularity and horizon of the Intent Engine specification
TickMs == drag_hold_ms \div 2
Ticks == 4

\* the Event Bus is driven with MaxPublished events and queue capacities
\* 1..MaxQueueSize
MaxPublished == 3
MaxQueueSize == 2

(* ------------------------------ values --------------------------------- *)

None == -1
NoStr == "None"

ActionClass ==
  {"CURSOR_MOVE", "CLICK", "DOUBLE_CLICK", "RIGHT_CLICK", "DRAG_START", "DRAG_STOP", "SCROLL"}

ClickClass == {"CLICK", "DOUBLE_CLICK", "RIGHT_CLICK"}

\* str.upper() on the strings the model uses
Upper(s) ==
  CASE s = "click" -> "CLICK"
    [] s = "armed" -> "ARMED"
    [] s = "Safe" -> "SAFE"
    [] s = "open_palm" -> "OPEN_PALM"
    [] OTHER -> s

NoMeta ==
  [mode |-> NoStr, x_norm |-> None, y_norm |-> None, source |-> NoStr,
   ratio |-> None, y_ratio |-> None]

Event(ts, type, name, confidence, meta) ==
  [ts |-> ts, type |-> type, name |-> name, confidence |-> confidence, meta |-> meta]

NoEvent == Event(None, NoStr, NoStr, None, NoMeta)

(* ---------------------------- Safety Guard ----------------------------- *)

SafetyState ==
  [armed |-> FALSE, emergency |-> FALSE, last_click_ts |-> 0, last_scroll_ts |-> 0,
   drag_active |-> FALSE]

\* set_mode whose ARMED flips armed
set_mode_toggle(g, mode) ==
  IF Upper(mode) = "ARMED" THEN [g EXCEPT !.armed = ~@]
  ELSE IF Upper(mode) = "SAFE" THEN [g EXCEPT !.armed = FALSE]
  ELSE g

set_mode(g, mode) ==
  IF Upper(mode) = "ARMED" THEN [g EXCEPT !.armed = TRUE]
  ELSE IF Upper(mode) = "SAFE" THEN [g EXCEPT !.armed = FALSE]
  ELSE g

\* emergency_stop that only disarms
emergency_stop_disarm_only(g) == [g EXCEPT !.armed = FALSE]

emergency_stop(g) == [g EXCEPT !.emergency = TRUE, !.armed = FALSE]

\* clear_emergency that also restores armed
clear_emergency_rearm(g) == [g EXCEPT !.emergency = FALSE, !.armed = TRUE]

clear_emergency(g) == [g EXCEPT !.emergency = FALSE]

notify_tracking_lost(g) ==
  IF auto_disarm_on_tracking_loss THEN [g EXCEPT !.armed = FALSE] ELSE g

\* approve_gate without the emergency check
approve_gate_no_emergency(g, intent) ==
  IF intent.confidence # None /\ intent.confidence < min_confidence THEN FALSE
  ELSE IF Upper(intent.name) \in ActionClass /\ ~g.armed THEN FALSE
  ELSE TRUE

\* approve_gate with the armed check on the click class only
approve_gate_armed_clicks_only(g, intent) ==
  IF g.emergency THEN FALSE
  ELSE IF intent.confidence # None /\ intent.confidence < min_confidence THEN FALSE
  ELSE IF Upper(intent.name) \in ClickClass /\ ~g.armed THEN FALSE
  ELSE TRUE

\* approve_gate with an absent confidence treated as zero
approve_gate_none_is_zero(g, intent) ==
  IF g.emergency THEN FALSE
  ELSE IF intent.confidence = None \/ intent.confidence < min_confidence THEN FALSE
  ELSE IF Upper(intent.name) \in ActionClass /\ ~g.armed THEN FALSE
  ELSE TRUE

\* approve_gate with the armed check on every intent name
approve_gate_armed_for_all(g, intent) ==
  IF g.emergency THEN FALSE
  ELSE IF intent.confidence # None /\ intent.confidence < min_confidence THEN FALSE
  ELSE IF ~g.armed THEN FALSE
  ELSE TRUE

\* the checks of approve that return False before the per-class bookkeeping
approve_gate(g, intent) ==
  IF g.emergency THEN FALSE
  ELSE IF intent.confidence # None /\ intent.confidence < min_confidence THEN FALSE
  ELSE IF Upper(intent.name) \in ActionClass /\ ~g.armed THEN FALSE
  ELSE TRUE

\* approve_click with the timestamp updated before the cooldown check
approve_click_restart(g, name, now) ==
  IF name \in ClickClass
  THEN IF (now - g.last_click_ts) < click_cooldown_ms
       THEN [ok |-> FALSE, g |-> [g EXCEPT !.last_click_ts = now]]
       ELSE [ok |-> TRUE, g |-> [g EXCEPT !.last_click_ts = now]]
  ELSE [ok |-> TRUE, g |-> g]

\* the click-class block of approve: cooldown check, then the timestamp update
approve_click(g, name, now) ==
  IF name \in ClickClass
  THEN IF (now - g.last_click_ts) < click_cooldown_ms
       THEN [ok |-> FALSE, g |-> g]
       ELSE [ok |-> TRUE, g |-> [g EXCEPT !.last_click_ts = now]]
  ELSE [ok |-> TRUE, g |-> g]

\* approve_scroll stamping the click timestamp as well
approve_scroll_stamps_click(g, name, now) ==
  IF name = "SCROLL"
  THEN IF (now - g.last_scroll_ts) < click_cooldown_ms
       THEN [ok |-> FALSE, g |-> g]
       ELSE [ok |-> TRUE, g |-> [g EXCEPT !.last_scroll_ts = now, !.last_click_ts = now]]
  ELSE [ok |-> TRUE, g |-> g]

\* the SCROLL block of approve
approve_scroll(g, name, now) ==
  IF name = "SCROLL"
  THEN IF (now - g.last_scroll_ts) < click_cooldown_ms
       THEN [ok |-> FALSE, g |-> g]
       ELSE [ok |-> TRUE, g |-> [g EXCEPT !.last_scroll_ts = now]]
  ELSE [ok |-> TRUE, g |-> g]

\* the drag bookkeeping of approve
approve_drag(g, name) ==
  IF name = "DRAG_START" THEN [g EXCEPT !.drag_active = TRUE]
  ELSE IF name = "DRAG_STOP" THEN [g EXCEPT !.drag_active = FALSE]
  ELSE g

\* approve after the SCROLL block returned r: the drag bookkeeping, return True
approve_after_scroll(r, name) ==
  IF ~r.ok THEN r ELSE [ok |-> TRUE, g |-> approve_drag(r.g, name)]

\* approve after the click-class block returned c
approve_after_click(c, name, now) ==
  IF ~c.ok THEN c ELSE approve_after_scroll(approve_scroll(c.g, name, now), name)

\* SafetyGuard.approve: the result and the Safety State it leaves
approve(g, intent, now) ==
  IF ~approve_gate(g, intent) THEN [ok |-> FALSE, g |-> g]
  ELSE approve_after_click(approve_click(g, Upper(intent.name), now), Upper(intent.name), now)

(* --------------------------- Mouse Controller -------------------------- *)

\* One run of a handler threads a record w through the statements it runs:
\* w.g Safety State, w.e engine fields, w.m mouse fields, w.b bus fields,
\* w.log the calls made so far, w.exc an exception is propagating,
\* w.ret the value returned by the last _emit_intent.
\* A statement is skipped while an exception propagates (w.exc).

LogApprove(intent, ok) == [op |-> "approve", what |-> intent.name, ok |-> ok, intent |-> intent]
LogPublish(intent, ok) == [op |-> "publish", what |-> intent.name, ok |-> ok, intent |-> intent]
LogCall(what, intent, ok) == [op |-> "call", what |-> what, ok |-> ok, intent |-> intent]

Logged(w, entry) == [w EXCEPT !.log = Append(@, entry)]

\* _execute passes source=... to move_absolute_norm(self, x_norm, y_norm):
\* the call raises TypeError before the body runs
move_absolute_norm(w, intent) ==
  [w EXCEPT !.log = Append(@, LogCall("move_absolute_norm", intent, FALSE)), !.exc = TRUE]

\* click, double_click, right_click and scroll change no field of the controller
mouse_stateless(w, what, intent) == Logged(w, LogCall(what, intent, TRUE))

\* self._mouse.press(btn) or self._mouse.release(btn) while handling intent
LogMouse(what, intent) == [op |-> "mouse", what |-> what, ok |-> TRUE, intent |-> intent]

\* self._mouse.press(btn); self._dragging = True
pressed(w, intent) ==
  [w EXCEPT !.log = Append(@, LogMouse("press", intent)), !.m.dragging = TRUE]

\* self._mouse.release(btn); self._dragging = False
released(w, intent) ==
  [w EXCEPT !.log = Append(@, LogMouse("release", intent)), !.m.dragging = FALSE]

\* drag_start that presses the button whether or not it is held
drag_start_press_again(w, intent) ==
  IF ~w.m.present THEN Logged(w, LogCall("drag_start", intent, TRUE))
  ELSE pressed(Logged(w, LogCall("drag_start", intent, TRUE)), intent)

drag_start(w, intent) ==
  IF ~w.m.present \/ w.m.dragging THEN Logged(w, LogCall("drag_start", intent, TRUE))
  ELSE pressed(Logged(w, LogCall("drag_start", intent, TRUE)), intent)

drag_stop(w, intent) ==
  IF ~w.m.present \/ ~w.m.dragging THEN Logged(w, LogCall("drag_stop", intent, TRUE))
  ELSE released(Logged(w, LogCall("drag_stop", intent, TRUE)), intent)

(* ------------------------------ Event Bus ------------------------------ *)

\* publish_threadsafe that hands publish over whether or not a loop is bound
publish_threadsafe_unbound(w, event) ==
  [w EXCEPT !.log = Append(@, LogPublish(event, TRUE)), !.exc = FALSE]

\* publish_threadsafe: RuntimeError when no loop is bound, otherwise the publish
\* coroutine is handed to the loop (recorded in the log as scheduled)
publish_threadsafe(w, event) ==
  [w EXCEPT !.log = Append(@, LogPublish(event, w.b.loop)), !.exc = ~w.b.loop]

(* ----------------------------- Intent Engine --------------------------- *)

\* the coordinates _execute uses for CURSOR_MOVE: the intent's, or last_point
\* when one of them is missing
cursor_target(w, intent) ==
  IF (intent.meta.x_norm = None \/ intent.meta.y_norm = None) /\ w.e.last_point # <<>>
  THEN w.e.last_point
  ELSE <<intent.meta.x_norm, intent.meta.y_norm>>

_execute(w, intent) ==
  CASE intent.name = "CURSOR_MOVE" ->
         IF cursor_target(w, intent)[1] # None /\ cursor_target(w, intent)[2] # None
         THEN move_absolute_norm(w, intent)
         ELSE w
    [] intent.name = "CLICK" -> mouse_stateless(w, "click", intent)
    [] intent.name = "DOUBLE_CLICK" -> mouse_stateless(w, "double_click", intent)
    [] intent.name = "RIGHT_CLICK" -> mouse_stateless(w, "right_click", intent)
    [] intent.name = "DRAG_START" -> drag_start(w, intent)
    [] intent.name = "DRAG_STOP" -> drag_stop(w, intent)
    [] intent.name = "SCROLL" -> mouse_stateless(w, "scroll", intent)
    [] intent.name = "CANCEL" -> drag_stop(w, intent)
    [] OTHER -> w

\* `except Exception: pass` around the publish
swallowed(w) == [w EXCEPT !.exc = FALSE]

\* `return v` of _emit_intent
returned(w, v) == IF w.exc THEN w ELSE [w EXCEPT !.ret = v]

\* the approve call of _emit_intent: its result r recorded, the Safety State updated
approved(w, intent, r) == [w EXCEPT !.g = r.g, !.log = Append(@, LogApprove(intent, r.ok))]

\* emit_decided that publishes and executes whatever approve returned
emit_decided_unchecked(w, intent, r) ==
  returned(_execute(swallowed(publish_threadsafe(approved(w, intent, r), intent)), intent), r.ok)

\* _emit_intent once approve has returned r
emit_decided(w, intent, r) ==
  IF ~r.ok THEN returned(approved(w, intent, r), FALSE)
  ELSE returned(_execute(swallowed(publish_threadsafe(approved(w, intent, r), intent)),
                         intent), TRUE)

_emit_intent(w, name, confidence, meta, now) ==
  emit_decided(w, Event(now, "intent", name, confidence, meta),
               approve(w.g, Event(now, "intent", name, confidence, meta), now))

_reset_pinch(w) == IF w.exc THEN w ELSE [w EXCEPT !.e.pinch_start_ts = None]

_reset_fist(w) == IF w.exc THEN w ELSE [w EXCEPT !.e.fist_start_ts = None]

\* self._drag_active = v
drag_flag_set(w, v) == IF w.exc THEN w ELSE [w EXCEPT !.e.drag_active = v]

\* the drag flag assigned whatever _emit_intent returned
drag_flag_set_always(w, v) == IF w.exc THEN w ELSE [w EXCEPT !.e.drag_active = v]

\* if self._emit_intent(...): self._drag_active = v
drag_flag_set_if_emitted(w, v) == IF w.exc \/ ~w.ret THEN w ELSE [w EXCEPT !.e.drag_active = v]

\* self._last_gesture = gesture
last_gesture_set(w, gesture) == IF w.exc THEN w ELSE [w EXCEPT !.e.last_gesture = gesture]

Toggled(mode) == IF mode = "EYE" THEN "HAND" ELSE "EYE"

\* the resets of the OPEN_PALM branch done only when the CANCEL was approved
open_palm_resets_on_approval(w) ==
  IF w.exc \/ ~w.ret THEN w ELSE drag_flag_set(_reset_fist(_reset_pinch(w)), FALSE)

\* the resets of the OPEN_PALM branch after the CANCEL was submitted
open_palm_resets(w) == drag_flag_set(_reset_fist(_reset_pinch(w)), FALSE)

\* the OPEN_PALM branch of _handle_gesture
gesture_open_palm(w, event, gesture, now) ==
  last_gesture_set(
    open_palm_resets(
      _emit_intent([w EXCEPT !.e.control_mode = Toggled(@)], "CANCEL", event.confidence,
                   [NoMeta EXCEPT !.mode = Toggled(w.e.control_mode)], now)),
    gesture)

\* if self._fist_start_ts is None: self._fist_start_ts = now
fist_started(w, now) ==
  IF w.e.fist_start_ts = None THEN [w EXCEPT !.e.fist_start_ts = now] ELSE w

\* fist_held leaving the fist timer running after the click
fist_held_keep_timer(w, event, now) ==
  IF now - w.e.fist_start_ts >= fist_hold_ms
  THEN _emit_intent(w, "CLICK", event.confidence,
                    [NoMeta EXCEPT !.mode = "PRECISE"], now)
  ELSE w

\* the short-hold check of the FIST branch, the fist timer running in w
fist_held(w, event, now) ==
  IF now - w.e.fist_start_ts >= fist_hold_ms
  THEN _reset_fist(_emit_intent(w, "CLICK", event.confidence,
                                [NoMeta EXCEPT !.mode = "PRECISE"], now))
  ELSE w

\* the FIST branch of _handle_gesture (returns before the PINCH and POINT blocks)
gesture_fist(w, event, gesture, now) ==
  last_gesture_set(fist_held(fist_started(w, now), event, now), gesture)

\* if self._pinch_start_ts is None: self._pinch_start_ts = now
pinch_started(w, now) ==
  IF w.e.pinch_start_ts = None THEN [w EXCEPT !.e.pinch_start_ts = now] ELSE w

\* the drag-hold check of the PINCH block, the pinch timer running in w
pinch_held(w, event, now) ==
  IF ~w.e.drag_active /\ now - w.e.pinch_start_ts >= drag_hold_ms
  THEN drag_flag_set_if_emitted(_emit_intent(w, "DRAG_START", event.confidence, NoMeta, now),
                                TRUE)
  ELSE w

\* the `if gesture == "PINCH"` block
gesture_pinch(w, event, now) == pinch_held(pinch_started(w, now), event, now)

\* gesture_release clicking whenever the pinch timer is set, whatever came before
gesture_release_any_timer(w, event, now) ==
  _reset_pinch(
    IF w.e.drag_active
    THEN drag_flag_set_if_emitted(_emit_intent(w, "DRAG_STOP", event.confidence, NoMeta, now),
                                  FALSE)
    ELSE IF w.e.pinch_start_ts # None
         THEN _emit_intent(w, "CLICK", event.confidence, NoMeta, now)
         ELSE w)

\* the else block of `if gesture == "PINCH"`
gesture_release(w, event, now) ==
  _reset_pinch(
    IF w.e.drag_active
    THEN drag_flag_set_if_emitted(_emit_intent(w, "DRAG_STOP", event.confidence, NoMeta, now),
                                  FALSE)
    ELSE IF w.e.pinch_start_ts # None /\ w.e.last_gesture = "PINCH"
         THEN _emit_intent(w, "CLICK", event.confidence, NoMeta, now)
         ELSE w)

\* the `if gesture == "POINT" and self._last_point` block
gesture_point(w, event, gesture, now) ==
  IF ~w.exc /\ gesture = "POINT" /\ w.e.last_point # <<>>
  THEN _emit_intent(w, "CURSOR_MOVE", event.confidence,
                    [NoMeta EXCEPT !.x_norm = w.e.last_point[1],
                                   !.y_norm = w.e.last_point[2]], now)
  ELSE w

\* the PINCH block or its else block
pinch_or_release(w, event, gesture, now) ==
  IF gesture = "PINCH" THEN gesture_pinch(w, event, now) ELSE gesture_release(w, event, now)

\* handle_gesture_named without the EYE-mode return
handle_gesture_named_any_mode(w, event, gesture, now) ==
  IF gesture = "OPEN_PALM" THEN gesture_open_palm(w, event, gesture, now)
  ELSE IF gesture = "FIST" THEN gesture_fist(w, event, gesture, now)
  ELSE last_gesture_set(
         gesture_point(pinch_or_release(_reset_fist(w), event, gesture, now),
                       event, gesture, now),
         gesture)

\* _handle_gesture after gesture = event.name.upper()
handle_gesture_named(w, event, gesture, now) ==
  IF gesture = "OPEN_PALM" THEN gesture_open_palm(w, event, gesture, now)
  ELSE IF w.e.control_mode = "EYE" THEN last_gesture_set(w, gesture)
  ELSE IF gesture = "FIST" THEN gesture_fist(w, event, gesture, now)
  ELSE last_gesture_set(
         gesture_point(pinch_or_release(_reset_fist(w), event, gesture, now),
                       event, gesture, now),
         gesture)

_handle_gesture(w, event, now) == handle_gesture_named(w, event, Upper(event.name), now)

\* self._last_gaze_y = y
last_gaze_y_set(w, y) == IF w.exc THEN w ELSE [w EXCEPT !.e.last_gaze_y = y]

\* _handle_gaze once x and y are computed
\* (the calibration file of ScreenGazeMapper is absent: available() is False)
gaze_mapped(w, event, x, y, now) ==
  last_gaze_y_set(
    _emit_intent(w, "CURSOR_MOVE", event.confidence,
                 [NoMeta EXCEPT !.x_norm = x, !.y_norm = y, !.source = "gaze"], now),
    y)

\* _handle_gaze that maps the gaze in either control mode
_handle_gaze_any_mode(w, event, now) ==
  IF event.meta.ratio = None THEN w
  ELSE gaze_mapped(w, event, event.meta.ratio,
                   IF event.meta.y_ratio # None THEN event.meta.y_ratio ELSE w.e.last_gaze_y,
                   now)

_handle_gaze(w, event, now) ==
  IF w.e.control_mode # "EYE" THEN w
  ELSE IF event.meta.ratio = None THEN w
  ELSE gaze_mapped(w, event, event.meta.ratio,
                   IF event.meta.y_ratio # None THEN event.meta.y_ratio ELSE w.e.last_gaze_y,
                   now)

_handle_event(w, event, now) ==
  IF event.type = "mode" THEN [w EXCEPT !.g = set_mode(w.g, event.name)]
  ELSE IF event.type = "system" /\ event.name = "EMERGENCY_STOP"
       THEN [w EXCEPT !.g = emergency_stop(w.g)]
  ELSE IF event.type = "gesture" THEN _handle_gesture(w, event, now)
  ELSE IF event.type = "point"
       THEN [w EXCEPT !.e.last_point = <<event.meta.x_norm, event.meta.y_norm>>]
  ELSE IF event.type = "gaze" THEN _handle_gaze(w, event, now)
  ELSE w

\* the task of _run ends when an exception leaves _handle_event
task_after(w) == IF w.exc THEN [w EXCEPT !.e.task = "failed"] ELSE w

\* one iteration of _run
_run(w, event, now) == task_after(_handle_event(w, event, now))

(* ------------------- Event Bus and its subscriptions ------------------- *)

\* In the runs of the Event Bus the record b holds the fields of EventBus
\* (loop, closed, max_queue_size, subscribers, latest), the publish coroutines
\* handed to the loop and not yet run (scheduled), and for every subscription
\* i its asyncio.Queue (queue[i]), the key it registered under (key[i]) and
\* the position of its generator (consumer[i]: "new" not made, "made" not started, "iter"
\* inside the while loop, "done" finished; the queue of a finished generator
\* is unreachable and shown empty).

\* the subscriptions: two consumers of gesture events and one of every event
Subs == {1, 2, 3}

Wanted == <<"gesture", "gesture", "*">>

EventTypes == {"gesture", "gaze"}

Wildcard == "*"

Keys == EventTypes \cup {Wildcard}

RECURSIVE offer_each(_, _, _, _)

Range(f) == {f[k] : k \in DOMAIN f}

\* asyncio.Queue.full()
full(q, maxsize) == maxsize > 0 /\ Len(q) >= maxsize

\* asyncio.Queue.put_nowait: QueueFull (exc) when the queue is full
put_nowait(q, event, maxsize) ==
  IF full(q, maxsize) THEN [q |-> q, exc |-> TRUE]
  ELSE [q |-> Append(q, event), exc |-> FALSE]

\* queue.get_nowait() with `except asyncio.QueueEmpty: pass`
get_nowait(q) == IF q = <<>> THEN q ELSE Tail(q)

\* _offer without the except branch: QueueFull leaves it
_offer_put_only(q, event, maxsize) == put_nowait(q, event, maxsize)

\* _offer that makes room by dropping the newest queued event
_offer_drop_newest(q, event, maxsize) ==
  IF put_nowait(q, event, maxsize).exc
  THEN put_nowait(IF q = <<>> THEN q ELSE SubSeq(q, 1, Len(q) - 1), event, maxsize)
  ELSE put_nowait(q, event, maxsize)

\* EventBus._offer: the queue it leaves, and whether an exception leaves it
_offer(q, event, maxsize) ==
  IF put_nowait(q, event, maxsize).exc
  THEN put_nowait(get_nowait(q), event, maxsize)
  ELSE put_nowait(q, event, maxsize)

\* the queues of type subscribers only
publish_targets_typed(b, type) == b.subscribers[type]

\* the queues publish iterates: those of the type, then the wildcard ones
publish_targets(b, type) == b.subscribers[type] \o b.subscribers[Wildcard]

\* one _offer of the for loop of publish: r is what _offer returned for queue i
offered(queues, i, r, rest, event, maxsize) ==
  IF r.exc THEN [queue |-> [queues EXCEPT ![i] = r.q], exc |-> TRUE]
  ELSE offer_each([queues EXCEPT ![i] = r.q], rest, event, maxsize)

\* the for loop of publish over the queues named in targets
offer_each(queues, targets, event, maxsize) ==
  IF targets = <<>> THEN [queue |-> queues, exc |-> FALSE]
  ELSE offered(queues, Head(targets), _offer(queues[Head(targets)], event, maxsize),
               Tail(targets), event, maxsize)

\* publish after the closed check: r is what the for loop returned
published(b, event, r) ==
  [b |-> [b EXCEPT !.latest[event.type] = event, !.queue = r.queue], exc |-> r.exc]

\* publish that caches the event only when a queue takes it
publish_latest_if_delivered(b, event) ==
  IF b.closed THEN [b |-> b, exc |-> FALSE]
  ELSE IF publish_targets(b, event.type) = <<>> THEN [b |-> b, exc |-> FALSE]
  ELSE published(b, event,
                 offer_each(b.queue, publish_targets(b, event.type), event, b.max_queue_size))

\* publish without the closed check
publish_when_closed(b, event) ==
  published(b, event,
            offer_each(b.queue, publish_targets(b, event.type), event, b.max_queue_size))

\* EventBus.publish: the bus it leaves, and whether an exception leaves it
publish(b, event) ==
  IF b.closed THEN [b |-> b, exc |-> FALSE]
  ELSE published(b, event,
                 offer_each(b.queue, publish_targets(b, event.type), event, b.max_queue_size))

bind_loop(b) == [b EXCEPT !.loop = TRUE]

\* the call subscribe(event_type): an async generator is made, none of its body runs
subscribe_called(b, i, event_type) == [b EXCEPT !.key[i] = event_type, !.consumer[i] = "made"]

\* subscribe up to its first `await queue.get()`: the queue is made and registered
subscribe(b, i, event_type) ==
  [b EXCEPT !.queue[i] = <<>>, !.key[i] = event_type,
            !.subscribers[event_type] = Append(@, i), !.consumer[i] = "iter"]

\* queue.get() that hands out the newest queued event
queue_get_newest(b, i) ==
  [b |-> [b EXCEPT !.queue[i] = SubSeq(@, 1, Len(@) - 1)], event |-> b.queue[i][Len(b.queue[i])]]

\* `event = await queue.get()` on a queue that holds an event, and the yield
queue_get(b, i) == [b |-> [b EXCEPT !.queue[i] = Tail(@)], event |-> Head(b.queue[i])]

\* list.remove(x): the first occurrence of x leaves the list
remove(list, x) ==
  SubSeq(list, 1, (CHOOSE k \in DOMAIN list : list[k] = x /\ \A j \in 1..(k - 1) : list[j] # x) - 1)
  \o SubSeq(list, (CHOOSE k \in DOMAIN list : list[k] = x /\ \A j \in 1..(k - 1) : list[j] # x) + 1,
            Len(list))

\* the finally clause of subscribe: ValueError (exc) when the queue is not in
\* the list registered under its key
subscribe_finally(b, i) ==
  IF i \in Range(b.subscribers[b.key[i]])
  THEN [b |-> [b EXCEPT !.subscribers[b.key[i]] = remove(@, i), !.consumer[i] = "done",
                        !.queue[i] = <<>>],
        exc |-> FALSE]
  ELSE [b |-> [b EXCEPT !.consumer[i] = "done", !.queue[i] = <<>>], exc |-> TRUE]

latest(b, event_type) == b.latest[event_type]

close(b) == [b EXCEPT !.closed = TRUE, !.subscribers = [k \in Keys |-> <<>>]]

\* EventBus(max_queue_size) after __init__, no subscription started
EventBus(max_queue_size) ==
  [loop |-> FALSE, closed |-> FALSE, max_queue_size |-> max_queue_size,
   subscribers |-> [k \in Keys |-> <<>>], latest |-> [t \in EventTypes |-> NoEvent],
   scheduled |-> <<>>, queue |-> [i \in Subs |-> <<>>], key |-> [i \in Subs |-> NoStr],
   consumer |-> [i \in Subs |-> "new"]]

(* ----------------------------- Orchestrator ---------------------------- *)

\* Orchestrator after __init__: where run is (pc), whether the keyboard hook
\* listens, the state of the background tasks, the _shutdown event, and the
\* exception that left run
Orchestrator ==
  [pc |-> "init", keyboard |-> FALSE, tasks |-> "none", shutdown |-> FALSE, raised |-> NoStr]

request_shutdown(o) == [o EXCEPT !.shutdown = TRUE]

\* Orchestrator.start once the tasks it created have taken their first step
started(o) == [o EXCEPT !.pc = "waiting", !.keyboard = TRUE, !.tasks = "running"]

\* Orchestrator.stop up to `await asyncio.gather(...)`
stop_begun(o) == [o EXCEPT !.pc = "gather", !.keyboard = FALSE, !.tasks = "cancelling"]

\* task.cancel(): a task that is done stays as it is
cancel(task) == IF task = "running" THEN "cancelling" ELSE task

\* `with contextlib.suppress(Exception): await self._task` on a task that is
\* done: CancelledError is no Exception and leaves stop, the exception of a
\* failed task is suppressed
awaited(o, task) ==
  IF task = "cancelled" THEN [o EXCEPT !.pc = "raised", !.raised = "CancelledError"]
  ELSE [o EXCEPT !.pc = "close"]

(* ----------------------------- history --------------------------------- *)

\* what the last step did: the operation, its argument and result, the calls
\* the handler made, and the time of the last approved click-class intent
\* the engine has handled EMERGENCY_STOP (estop), and the current run of
\* consecutive PINCH gesture events: the time of its first event (run_first),
\* whether every event of it met HAND mode, armed, no emergency and passing
\* confidence with no drag at its start (run_ok), and the DRAG_START intents
\* approved in it (run_starts) and whether one was rejected in it (run_rejected);
\* for the guard called directly: the last two calls were the same set_mode
\* (again), where the guard is after an emergency_stop (phase: "stopped" until
\* clear_emergency, then "cleared", and "none" once set_mode is called with
\* ARMED), and whether the last approved drag lifecycle intent (DRAG_START,
\* DRAG_STOP, CANCEL) was a DRAG_START (drag_open)
NoHist ==
  [op |-> "init", ev |-> NoEvent, ok |-> FALSE, log |-> <<>>, click_ts |-> None,
   estop |-> FALSE, run_first |-> None, run_ok |-> FALSE, run_starts |-> 0,
   run_rejected |-> FALSE, again |-> FALSE, phase |-> "none", drag_open |-> FALSE,
   fist_click_ts |-> None, fist_clicks |-> 0]

Did(op, ev, ok) ==
  [hist EXCEPT !.op = op, !.ev = ev, !.ok = ok, !.log = <<>>, !.again = FALSE]

(* ----------------------- initial values ------------------------------- *)

IntentEngineState ==
  [last_point |-> <<>>, last_gesture |-> "NONE", pinch_start_ts |-> None,
   drag_active |-> FALSE, fist_start_ts |-> None, control_mode |-> "EYE",
   last_gaze_y |-> 50, task |-> "running"]

GuardInit ==
  /\ clock = ClockStart
  /\ guard = SafetyState
  /\ eng = IntentEngineState
  /\ mouse = [present |-> TRUE, dragging |-> FALSE]
  /\ bus = [loop |-> FALSE]
  /\ hist = NoHist
  /\ orch = Orchestrator

(* ------------------- Safety Guard called directly ---------------------- *)

ModeStrings == {"ARMED", "SAFE", "armed", "Safe", "BOGUS"}

IntentNames == ActionClass \cup {"CANCEL", "JUMP", "click"}

Confidences == {None, 30, 60}

GuardTick ==
  /\ clock + GuardTickMs <= ClockStart + GuardTickMs * GuardTicks
  /\ clock' = clock + GuardTickMs
  /\ hist' = Did("tick", NoEvent, FALSE)
  /\ UNCHANGED <<guard, eng, mouse, bus, orch>>

SetMode(m) ==
  /\ guard' = set_mode(guard, m)
  /\ hist' = [Did("set_mode", Event(None, "mode", m, None, NoMeta), FALSE) EXCEPT
                !.again = hist.op = "set_mode" /\ hist.ev.name = m,
                !.phase = IF Upper(m) = "ARMED" THEN "none" ELSE @]
  /\ UNCHANGED <<clock, eng, mouse, bus, orch>>

EmergencyStop ==
  /\ guard' = emergency_stop(guard)
  /\ hist' = [Did("emergency_stop", NoEvent, FALSE) EXCEPT !.phase = "stopped"]
  /\ UNCHANGED <<clock, eng, mouse, bus, orch>>

ClearEmergency ==
  /\ guard' = clear_emergency(guard)
  /\ hist' = [Did("clear_emergency", NoEvent, FALSE) EXCEPT
                !.phase = IF @ = "stopped" THEN "cleared" ELSE @]
  /\ UNCHANGED <<clock, eng, mouse, bus, orch>>

NotifyTrackingLost ==
  /\ guard' = notify_tracking_lost(guard)
  /\ hist' = Did("notify_tracking_lost", NoEvent, FALSE)
  /\ UNCHANGED <<clock, eng, mouse, bus, orch>>

Approve(name, conf) ==
  LET intent == Event(clock, "intent", name, conf, NoMeta)
      r == approve(guard, intent, clock)
  IN /\ guard' = r.g
     /\ hist' = [Did("approve", intent, r.ok) EXCEPT
                   !.click_ts = IF r.ok /\ Upper(name) \in ClickClass THEN clock ELSE @,
                   !.drag_open = IF r.ok /\ Upper(name) = "DRAG_START" THEN TRUE
                                 ELSE IF r.ok /\ Upper(name) \in {"DRAG_STOP", "CANCEL"}
                                      THEN FALSE ELSE @]
     /\ UNCHANGED <<clock, eng, mouse, bus, orch>>

GuardNext ==
  \/ GuardTick
  \/ \E m \in ModeStrings : SetMode(m)
  \/ EmergencyStop
  \/ ClearEmergency
  \/ NotifyTrackingLost
  \/ \E n \in IntentNames, c \in Confidences : Approve(n, c)

SpecGuard == GuardInit /\ [][GuardNext]_vars

(* ---------------- Intent Engine driven by delivered events ------------- *)

GestureNames == {"PINCH", "FIST", "OPEN_PALM", "POINT", "NONE", "UNKNOWN"}

Point(x, y) == [NoMeta EXCEPT !.x_norm = x, !.y_norm = y]

Gaze(r, yr) == [NoMeta EXCEPT !.ratio = r, !.y_ratio = yr]

\* the events the engine's wildcard subscription can yield at time now
EngineEvents(now) ==
  {Event(now, "mode", m, None, NoMeta) : m \in {"ARMED", "SAFE"}}
  \cup {Event(now, "system", n, None, NoMeta) : n \in {"EMERGENCY_STOP", "PING"}}
  \cup {Event(now, "gesture", n, 80, NoMeta) : n \in GestureNames}
  \cup {Event(now, "gesture", n, 30, NoMeta) : n \in {"OPEN_PALM", "PINCH"}}
  \cup {Event(now, "point", "CURSOR", 80, Point(25, 75))}
  \cup {Event(now, "gaze", "CENTER", 80, Gaze(50, y)) : y \in {None, 30}}
  \cup {Event(now, "gaze", "NONE", 80, Gaze(None, None))}
  \cup {Event(now, "intent", "CLICK", 80, NoMeta)}

World == [g |-> guard, e |-> eng, m |-> mouse, b |-> bus, log |-> <<>>, exc |-> FALSE,
          ret |-> FALSE]

Count(log, op, what) ==
  Cardinality({k \in DOMAIN log : log[k].op = op /\ log[k].what = what /\ log[k].ok})

\* the intents named what that approve rejected in a log
Rejected(log, what) ==
  Cardinality({k \in DOMAIN log : log[k].op = "approve" /\ log[k].what = what /\ ~log[k].ok})

\* the run of consecutive PINCH gesture events after the engine handles event
RunAfter(event, w) ==
  IF event.type # "gesture" THEN hist
  ELSE IF Upper(event.name) # "PINCH"
       THEN [hist EXCEPT !.run_first = None, !.run_ok = FALSE, !.run_starts = 0,
                         !.run_rejected = FALSE]
  ELSE
    LET met == /\ eng.control_mode = "HAND" /\ guard.armed /\ ~guard.emergency
               /\ (event.confidence = None \/ event.confidence >= min_confidence)
        starts == Count(w.log, "approve", "DRAG_START")
        rejected == Rejected(w.log, "DRAG_START") > 0
    IN IF hist.run_first = None
       THEN [hist EXCEPT !.run_first = clock, !.run_ok = met /\ ~eng.drag_active,
                         !.run_starts = starts, !.run_rejected = rejected]
       ELSE [hist EXCEPT !.run_ok = @ /\ met, !.run_starts = @ + starts,
                         !.run_rejected = @ \/ rejected]

\* a ghost of the run of consecutive FIST gesture events after the engine
\* handles event: before when the event is no gesture, reset when it is another
\* gesture, clicked when this FIST event submitted an intent
FistRunAfter(event, w, before, reset, clicked) ==
  IF event.type # "gesture" THEN before
  ELSE IF Upper(event.name) # "FIST" THEN reset
  ELSE IF w.log # <<>> THEN clicked
  ELSE before

Init ==
  /\ clock = ClockStart
  /\ guard = SafetyState
  /\ eng = IntentEngineState
  /\ mouse = [present |-> TRUE, dragging |-> FALSE]
  /\ bus = [loop |-> TRUE]
  /\ hist = NoHist
  /\ orch = Orchestrator

Tick ==
  /\ clock + TickMs <= ClockStart + TickMs * Ticks
  /\ clock' = clock + TickMs
  /\ hist' = Did("tick", NoEvent, FALSE)
  /\ UNCHANGED <<guard, eng, mouse, bus, orch>>

\* one iteration of IntentEngine._run on a delivered event
HandleEvent(event) ==
  /\ eng.task = "running"
  /\ \E w \in {_run(World, event, clock)} :
        /\ guard' = w.g
        /\ eng' = w.e
        /\ mouse' = w.m
        /\ bus' = w.b
        /\ hist' = [RunAfter(event, w) EXCEPT
                      !.op = "handle", !.ev = event, !.ok = ~w.exc, !.log = w.log,
                      !.estop = @ \/ (event.type = "system" /\ event.name = "EMERGENCY_STOP"),
                      !.fist_click_ts = FistRunAfter(event, w, @, None, clock),
                      !.fist_clicks = FistRunAfter(event, w, @, 0, @ + 1)]
  /\ UNCHANGED <<clock, orch>>

Next ==
  \/ Tick
  \/ \E event \in EngineEvents(clock) : HandleEvent(event)

Spec == Init /\ [][Next]_vars

(* ------------- Event Bus driven by producers and consumers ------------- *)

\* what the last step of the bus did (op, ev, ok: no exception left it, ret:
\* the value latest returned, sub: the subscription that acted), the last
\* event publish accepted for each type (accepted), for every subscription
\* the timestamps of the matching events published while it was consuming
\* (offered) and of the events it dequeued (got), both kept until the
\* subscription stops, and the subscriptions whose
\* queue was full when the last publish started (was_full) and those whose
\* queue was full at some publish since they started (overflowed)
BusHist ==
  [op |-> "init", ev |-> NoEvent, ok |-> TRUE, ret |-> NoEvent, sub |-> 0,
   accepted |-> [t \in EventTypes |-> NoEvent],
   offered |-> [i \in Subs |-> <<>>], got |-> [i \in Subs |-> <<>>], was_full |-> {},
   overflowed |-> {}]

\* subscription i is consuming under a key that matches events of type t
Matching(i, t) == bus.consumer[i] = "iter" /\ bus.key[i] \in {t, Wildcard}

BusEvent(t) == Event(clock, t, IF t = "gesture" THEN "PINCH" ELSE "CENTER", None, NoMeta)

BusInit ==
  /\ clock = ClockStart
  /\ guard = SafetyState
  /\ eng = IntentEngineState
  /\ mouse = [present |-> TRUE, dragging |-> FALSE]
  /\ \E n \in 1..MaxQueueSize : bus = EventBus(n)
  /\ hist = BusHist
  /\ orch = Orchestrator

BusDid(op, ev, ok, i) ==
  [hist EXCEPT !.op = op, !.ev = ev, !.ok = ok, !.ret = NoEvent, !.sub = i, !.was_full = {}]

\* the history after publish ran on event and returned r
AfterPublish(event, r) ==
  IF bus.closed THEN BusDid("publish", event, ~r.exc, 0)
  ELSE [BusDid("publish", event, ~r.exc, 0) EXCEPT
          !.accepted[event.type] = event,
          !.offered = [i \in Subs |-> IF Matching(i, event.type)
                                      THEN Append(@[i], event.ts) ELSE @[i]],
          !.was_full = {i \in Subs : /\ Matching(i, event.type)
                                     /\ full(bus.queue[i], bus.max_queue_size)},
          !.overflowed = @ \cup {i \in Subs : /\ Matching(i, event.type)
                                              /\ full(bus.queue[i], bus.max_queue_size)}]

BindLoop ==
  /\ bus' = bind_loop(bus)
  /\ hist' = BusDid("bind_loop", NoEvent, TRUE, 0)
  /\ UNCHANGED <<clock, guard, eng, mouse, orch>>

\* a producer on the loop awaits publish
Publish(t) ==
  /\ clock < ClockStart + MaxPublished
  /\ \E r \in {publish(bus, BusEvent(t))} :
        /\ bus' = r.b
        /\ hist' = AfterPublish(BusEvent(t), r)
  /\ clock' = clock + 1
  /\ UNCHANGED <<guard, eng, mouse, orch>>

\* a producer on another thread calls publish_threadsafe
PublishThreadsafe(t) ==
  /\ clock < ClockStart + MaxPublished
  /\ \E w \in {publish_threadsafe([b |-> bus, log |-> <<>>, exc |-> FALSE], BusEvent(t))} :
        /\ bus' = IF w.exc \/ ~w.log[1].ok THEN bus
                  ELSE [bus EXCEPT !.scheduled = Append(@, w.log[1].intent)]
        /\ hist' = BusDid("publish_threadsafe", BusEvent(t), ~w.exc, 0)
  /\ clock' = clock + 1
  /\ UNCHANGED <<guard, eng, mouse, orch>>

\* the loop runs the oldest publish coroutine handed to it
RunScheduled ==
  /\ bus.scheduled # <<>>
  /\ \E r \in {publish([bus EXCEPT !.scheduled = Tail(@)], Head(bus.scheduled))} :
        /\ bus' = r.b
        /\ hist' = AfterPublish(Head(bus.scheduled), r)
  /\ UNCHANGED <<clock, guard, eng, mouse, orch>>

\* consumer i calls subscribe(Wanted[i]) and holds the stream it returns
CallSubscribe(i) ==
  /\ bus.consumer[i] = "new"
  /\ bus' = subscribe_called(bus, i, Wanted[i])
  /\ hist' = BusDid("call_subscribe", NoEvent, TRUE, i)
  /\ UNCHANGED <<clock, guard, eng, mouse, orch>>

\* consumer i starts iterating the stream: its first await runs the generator
\* up to `await queue.get()`
Subscribe(i) ==
  /\ bus.consumer[i] = "made"
  /\ bus' = subscribe(bus, i, Wanted[i])
  /\ hist' = BusDid("subscribe", NoEvent, TRUE, i)
  /\ UNCHANGED <<clock, guard, eng, mouse, orch>>

\* the generator of subscription i gets an event from its queue and yields it
Get(i) ==
  /\ bus.consumer[i] = "iter"
  /\ bus.queue[i] # <<>>
  /\ \E r \in {queue_get(bus, i)} :
        /\ bus' = r.b
        /\ hist' = [BusDid("get", r.event, TRUE, i) EXCEPT !.got[i] = Append(@, r.event.ts)]
  /\ UNCHANGED <<clock, guard, eng, mouse, orch>>

\* the consumer of subscription i stops: its stream is closed or its task cancelled
Stop(i) ==
  /\ bus.consumer[i] = "iter"
  /\ \E r \in {subscribe_finally(bus, i)} :
        /\ bus' = r.b
        /\ hist' = [BusDid("stop", NoEvent, ~r.exc, i) EXCEPT
                      !.offered[i] = <<>>, !.got[i] = <<>>, !.overflowed = @ \ {i}]
  /\ UNCHANGED <<clock, guard, eng, mouse, orch>>

Latest(t) ==
  /\ hist' = [BusDid("latest", Event(None, t, NoStr, None, NoMeta), TRUE, 0) EXCEPT
                !.ret = latest(bus, t)]
  /\ UNCHANGED <<clock, guard, eng, mouse, bus, orch>>

Close ==
  /\ bus' = close(bus)
  /\ hist' = BusDid("close", NoEvent, TRUE, 0)
  /\ UNCHANGED <<clock, guard, eng, mouse, orch>>

\* the bus used on the loop: publish coroutines run, consumers come and go
BusNext ==
  \/ \E t \in EventTypes : Publish(t)
  \/ \E i \in Subs : CallSubscribe(i)
  \/ \E i \in Subs : Subscribe(i)
  \/ \E i \in Subs : Get(i)
  \/ \E i \in Subs : Stop(i)
  \/ \E t \in EventTypes : Latest(t)
  \/ Close

SpecBus == BusInit /\ [][BusNext]_vars

\* a consumer blocked in `await queue.get()` resumes once its queue holds an event
SpecBusFair == SpecBus /\ \A i \in Subs : WF_vars(Get(i))

\* the bus fed from other threads: publish_threadsafe hands publish to the loop
ThreadNext ==
  \/ BindLoop
  \/ \E t \in EventTypes : PublishThreadsafe(t)
  \/ RunScheduled
  \/ \E i \in Subs : CallSubscribe(i)
  \/ \E i \in Subs : Subscribe(i)
  \/ \E i \in Subs : Get(i)
  \/ Close

SpecBusThread == BusInit /\ [][ThreadNext]_vars

(* --------------------- Orchestrator.run from start to stop ------------- *)

\* the events the engine's subscription yields while the orchestrator runs
StopEvents(now) == {event \in EngineEvents(now) : event.type \in {"mode", "system", "gaze"}}

StopInit ==
  /\ clock = ClockStart
  /\ guard = SafetyState
  /\ eng = [IntentEngineState EXCEPT !.task = "none"]
  /\ mouse = [present |-> TRUE, dragging |-> FALSE]
  /\ bus = EventBus(MaxQueueSize)
  /\ hist = NoHist
  /\ orch = Orchestrator

\* run awaits start: the loop is bound, the keyboard hook listens, the engine's
\* task and the background tasks are created and reach their first await
OrchStart ==
  /\ orch.pc = "init"
  /\ bus' = subscribe(subscribe_called(bind_loop(bus), 3, Wildcard), 3, Wildcard)
  /\ eng' = [eng EXCEPT !.task = "running"]
  /\ orch' = started(orch)
  /\ hist' = Did("start", NoEvent, TRUE)
  /\ UNCHANGED <<clock, guard, mouse>>

\* the engine's task handles an event while the orchestrator runs
OrchHandleEvent(event) ==
  /\ orch.pc # "init"
  /\ HandleEvent(event)

\* a signal handler or the stop-event watcher calls request_shutdown
RequestShutdown ==
  /\ orch.pc = "waiting"
  /\ ~orch.shutdown
  /\ orch' = request_shutdown(orch)
  /\ hist' = Did("request_shutdown", NoEvent, TRUE)
  /\ UNCHANGED <<clock, guard, eng, mouse, bus>>

\* run wakes from _shutdown.wait() and stop runs up to its first await
StopBegin ==
  /\ orch.pc = "waiting"
  /\ orch.shutdown
  /\ orch' = stop_begun(orch)
  /\ hist' = Did("stop", NoEvent, TRUE)
  /\ UNCHANGED <<clock, guard, eng, mouse, bus>>

\* the cancelled background tasks end
TasksCancelled ==
  /\ orch.tasks = "cancelling"
  /\ orch' = [orch EXCEPT !.tasks = "cancelled"]
  /\ hist' = Did("tasks_cancelled", NoEvent, TRUE)
  /\ UNCHANGED <<clock, guard, eng, mouse, bus>>

\* gather returns and IntentEngine.stop runs up to `await self._task`
EngineStop ==
  /\ orch.pc = "gather"
  /\ orch.tasks = "cancelled"
  /\ eng' = [eng EXCEPT !.task = cancel(@)]
  /\ orch' = [orch EXCEPT !.pc = "await_engine"]
  /\ hist' = Did("engine_stop", NoEvent, TRUE)
  /\ UNCHANGED <<clock, guard, mouse, bus>>

\* the cancelled engine task ends: CancelledError is thrown into
\* `await queue.get()` and the finally clause of subscribe runs
EngineCancelled ==
  /\ eng.task = "cancelling"
  /\ \E r \in {subscribe_finally(bus, 3)} :
        /\ bus' = r.b
        /\ hist' = Did("engine_cancelled", NoEvent, ~r.exc)
  /\ eng' = [eng EXCEPT !.task = "cancelled"]
  /\ UNCHANGED <<clock, guard, mouse, orch>>

\* `await self._task` returns control to IntentEngine.stop
EngineAwaited ==
  /\ orch.pc = "await_engine"
  /\ eng.task \in {"cancelled", "failed"}
  /\ orch' = awaited(orch, eng.task)
  /\ hist' = Did("engine_awaited", NoEvent, eng.task = "failed")
  /\ UNCHANGED <<clock, guard, eng, mouse, bus>>

\* stop goes on to `await self.bus.close()` and returns
BusClose ==
  /\ orch.pc = "close"
  /\ bus' = close(bus)
  /\ orch' = [orch EXCEPT !.pc = "stopped"]
  /\ hist' = Did("close", NoEvent, TRUE)
  /\ UNCHANGED <<clock, guard, eng, mouse>>

StopNext ==
  \/ OrchStart
  \/ \E event \in StopEvents(clock) : OrchHandleEvent(event)
  \/ RequestShutdown
  \/ StopBegin
  \/ TasksCancelled
  \/ EngineStop
  \/ EngineCancelled
  \/ EngineAwaited
  \/ BusClose

SpecStop == StopInit /\ [][StopNext]_vars

(* ------------------ claims about SafetyGuard.approve ------------------- *)

ConfidencePasses(c) == c = None \/ c >= min_confidence

\* C1: for every intent (any name, confidence and armed value) approve returns
\* false when emergency is true at the call.
C1_EmergencyRejects ==
  [][(hist'.op = "approve" /\ guard.emergency) => ~hist'.ok]_vars

C1_Witness ==
  /\ hist.op = "approve" /\ hist.ev.name = "CANCEL" /\ hist.ev.confidence = None
  /\ guard.emergency /\ guard.armed /\ ~hist.ok

\* C2: approve of each of the seven action-class names returns false when armed
\* is false at the call, whatever the confidence and the cooldown timestamps.
C2_DisarmedRejectsActions ==
  [][(hist'.op = "approve" /\ hist'.ev.name \in ActionClass /\ ~guard.armed)
       => ~hist'.ok]_vars

C2_Witness ==
  /\ hist.op = "approve" /\ hist.ev.name = "DRAG_START" /\ hist.ev.confidence = 60
  /\ ~guard.armed /\ ~guard.emergency /\ ~hist.ok

\* C3: armed, no emergency, confidence passing: a click-class intent is
\* rejected when less than click_cooldown_ms has elapsed since the last approved
\* click-class intent, approved when more has elapsed, and approved when no
\* click-class intent was approved before; rejected clicks do not move the window.
C3_ClickCooldown ==
  [][(/\ hist'.op = "approve"
      /\ Upper(hist'.ev.name) \in ClickClass
      /\ guard.armed /\ ~guard.emergency
      /\ ConfidencePasses(hist'.ev.confidence))
       => /\ hist.click_ts = None => hist'.ok
          /\ (hist.click_ts # None /\ clock - hist.click_ts < click_cooldown_ms)
               => ~hist'.ok
          /\ (hist.click_ts # None /\ clock - hist.click_ts > click_cooldown_ms)
               => hist'.ok]_vars

C3_Witness ==
  /\ hist.op = "approve" /\ hist.ev.name = "DOUBLE_CLICK"
  /\ guard.armed /\ ~guard.emergency /\ ConfidencePasses(hist.ev.confidence)
  /\ hist.click_ts # None /\ clock - hist.click_ts = 2 * GuardTickMs
  /\ ~hist.ok

\* C4: an intent carrying a confidence below min_confidence is rejected before
\* any bookkeeping (the Safety State is left as it was), and an intent carrying
\* no confidence gets the result of the same intent with a passing confidence.
C4_ConfidenceGate ==
  [][hist'.op = "approve"
       => /\ (hist'.ev.confidence # None /\ hist'.ev.confidence < min_confidence)
               => (~hist'.ok /\ guard' = guard)
          /\ hist'.ev.confidence = None
               => hist'.ok = approve(guard, [hist'.ev EXCEPT !.confidence = 100], clock).ok]_vars

C4_Witness ==
  /\ hist.op = "approve" /\ hist.ev.name = "CLICK" /\ hist.ev.confidence = None
  /\ guard.armed /\ guard.last_click_ts = clock /\ hist.ok

\* C5: an intent whose name is not an action-class name is approved whenever
\* emergency is false and its confidence is absent or at least min_confidence,
\* whatever armed and the cooldown timestamps are.
C5_DefaultApprove ==
  [][(/\ hist'.op = "approve"
      /\ Upper(hist'.ev.name) \notin ActionClass
      /\ ~guard.emergency
      /\ ConfidencePasses(hist'.ev.confidence))
       => hist'.ok]_vars

C5_Witness ==
  /\ hist.op = "approve" /\ hist.ev.name = "JUMP" /\ hist.ev.confidence = 60
  /\ ~guard.armed /\ ~guard.emergency /\ hist.ok

(* -------------------- claims about the Intent Engine ------------------- *)

Handled(type, name) ==
  hist.op = "handle" /\ hist.ev.type = type /\ Upper(hist.ev.name) = name

Effects == {"publish", "call"}

\* the approve entry that governs entry k of the log: the last one before k
Governing(log, k) ==
  LET before == {j \in 1..(k - 1) : log[j].op = "approve"}
  IN IF before = {} THEN 0 ELSE CHOOSE j \in before : \A i \in before : i <= j

\* C6: every publish of an intent and every actuator call the engine makes
\* while handling an event comes after an approve call that returned true for
\* that same intent; after an approve that returned false nothing is published
\* or executed for the intent.
C6_OnlyApprovedIntentsAct ==
  \A k \in DOMAIN hist.log :
    hist.log[k].op \in Effects
      => LET j == Governing(hist.log, k)
         IN j # 0 /\ hist.log[j].ok /\ hist.log[j].intent = hist.log[k].intent

C6_Witness ==
  /\ hist.op = "handle" /\ Len(hist.log) >= 3
  /\ hist.log[1].op = "approve" /\ ~hist.log[1].ok /\ hist.log[1].what = "CLICK"
  /\ hist.log[2].op = "approve" /\ hist.log[2].ok /\ hist.log[2].what = "CURSOR_MOVE"
  /\ hist.log[3].op = "publish"

C8_LoopSurvivesActuatorFailure ==
  (hist.op = "handle" /\ \E k \in DOMAIN hist.log : hist.log[k].op = "call" /\ ~hist.log[k].ok)
    => eng.task = "running"

\* C9: in a run of consecutive PINCH gesture events handled in HAND mode with
\* the guard armed, no emergency, passing confidence and no drag active at its
\* start, no DRAG_START is emitted while the time since the first PINCH of the
\* run is below drag_hold_ms, and exactly one has been emitted in the run at
\* every PINCH event handled once that time has reached drag_hold_ms.
C9_OneDragStartPerHeldPinch ==
  (Handled("gesture", "PINCH") /\ hist.run_ok)
    => /\ clock - hist.run_first < drag_hold_ms => hist.run_starts = 0
       /\ clock - hist.run_first >= drag_hold_ms => hist.run_starts = 1

\* C10: handling OPEN_PALM in either control mode flips control_mode, submits
\* exactly one intent, a CANCEL whose metadata mode is the new control mode, and
\* clears the pinch timer, the fist timer and the local drag flag whether or
\* not the guard approved the CANCEL.
C10_OpenPalmToggles ==
  [][(hist'.op = "handle" /\ hist'.ev.type = "gesture" /\ Upper(hist'.ev.name) = "OPEN_PALM")
       => /\ eng'.control_mode = (IF eng.control_mode = "EYE" THEN "HAND" ELSE "EYE")
          /\ {k \in DOMAIN hist'.log : hist'.log[k].op = "approve"} = {1}
          /\ hist'.log[1].what = "CANCEL"
          /\ hist'.log[1].intent.meta.mode = eng'.control_mode
          /\ eng'.pinch_start_ts = None
          /\ eng'.fist_start_ts = None
          /\ ~eng'.drag_active
          /\ eng'.last_gesture = "OPEN_PALM"]_vars

C10_Witness ==
  /\ Handled("gesture", "OPEN_PALM")
  /\ hist.log[1].op = "approve" /\ ~hist.log[1].ok
  /\ eng.control_mode = "EYE" /\ guard.drag_active /\ mouse.dragging
  /\ ~eng.drag_active

\* the approve entries of a log: the intents the engine submitted
Submitted(log) == {k \in DOMAIN log : log[k].op = "approve"}

\* C11: while control_mode is HAND, handling a gaze event (with or without a
\* ratio) submits no intent, makes no actuator call and changes no engine,
\* guard or mouse state; in EYE mode a gaze event with a ratio submits exactly
\* one intent, a CURSOR_MOVE marked source=gaze.
C11_GazeInertInHandMode ==
  [][(hist'.op = "handle" /\ hist'.ev.type = "gaze")
       => /\ eng.control_mode = "HAND"
               => (hist'.log = <<>> /\ eng' = eng /\ guard' = guard /\ mouse' = mouse)
          /\ (eng.control_mode = "EYE" /\ hist'.ev.meta.ratio # None)
               => /\ Submitted(hist'.log) = {1}
                  /\ hist'.log[1].what = "CURSOR_MOVE"
                  /\ hist'.log[1].intent.meta.source = "gaze"
                  /\ hist'.log[1].intent.meta.x_norm = hist'.ev.meta.ratio]_vars

C11_Witness ==
  /\ hist.op = "handle" /\ hist.ev.type = "gaze" /\ hist.ev.meta.ratio = 50
  /\ eng.control_mode = "HAND" /\ guard.armed /\ ~guard.emergency
  /\ hist.log = <<>>

(* ---------------------- claims about the Event Bus --------------------- *)

Last(q) == q[Len(q)]

\* the timestamps of the events in a queue
Ts(q) == [k \in DOMAIN q |-> q[k].ts]

Occurrences(q, e) == Cardinality({k \in DOMAIN q : q[k] = e})

\* the last n elements of a sequence
LastN(q, n) == SubSeq(q, IF Len(q) > n THEN Len(q) - n + 1 ELSE 1, Len(q))

\* a can be obtained from b by deleting elements
IsSubsequence(a, b) ==
  \E f \in [DOMAIN a -> DOMAIN b] :
    /\ \A k \in DOMAIN a : a[k] = b[f[k]]
    /\ \A k, l \in DOMAIN a : k < l => f[k] < f[l]

\* C12: while the bus is open, one publish of an event of type T puts the event
\* exactly once, as the newest entry, into the queue of every consuming
\* subscription registered for T or for the wildcard, and leaves every other
\* queue as it was.
C12_FanOut ==
  [][(hist'.op = "publish" /\ ~bus.closed)
       => \A i \in Subs :
            IF Matching(i, hist'.ev.type)
            THEN /\ Occurrences(bus'.queue[i], hist'.ev) = 1
                 /\ Last(bus'.queue[i]) = hist'.ev
            ELSE bus'.queue[i] = bus.queue[i]]_vars

C12_Witness ==
  /\ hist.op = "publish" /\ hist.ev.type = "gesture" /\ ~bus.closed
  /\ bus.consumer[1] = "iter" /\ Last(bus.queue[1]) = hist.ev
  /\ bus.consumer[2] = "iter" /\ Last(bus.queue[2]) = hist.ev
  /\ bus.consumer[3] = "iter" /\ Last(bus.queue[3]) = hist.ev
  /\ Len(bus.queue[3]) = 2 /\ bus.queue[3][1].type = "gaze" /\ Len(bus.queue[1]) = 1

\* C13: a subscriber queue never holds more than max_queue_size events, and
\* the queue of a subscription that has dequeued nothing holds, once more than
\* max_queue_size matching events were published to it, exactly the newest
\* max_queue_size of them in publish order.
C13_OverflowKeepsNewest ==
  \A i \in Subs :
    /\ Len(bus.queue[i]) <= bus.max_queue_size
    /\ (/\ bus.consumer[i] = "iter" /\ hist.got[i] = <<>>
        /\ Len(hist.offered[i]) > bus.max_queue_size)
         => Ts(bus.queue[i]) = LastN(hist.offered[i], bus.max_queue_size)

C13_Witness ==
  /\ bus.max_queue_size = 2 /\ bus.consumer[3] = "iter" /\ hist.got[3] = <<>>
  /\ Len(hist.offered[3]) = 3
  /\ Ts(bus.queue[3]) = <<ClockStart + 1, ClockStart + 2>>

\* C14: a publish that finds the queue of a matching subscription full still
\* completes without an exception, and every matching subscription, the full
\* one included, holds the event as its newest entry afterwards.
C14_FullQueueDoesNotBlock ==
  [][(/\ hist'.op = "publish" /\ ~bus.closed
      /\ \E j \in Subs : /\ Matching(j, hist'.ev.type)
                         /\ full(bus.queue[j], bus.max_queue_size))
       => /\ hist'.ok
          /\ \A i \in Subs : Matching(i, hist'.ev.type) => Last(bus'.queue[i]) = hist'.ev]_vars

C14_Witness ==
  /\ hist.op = "publish" /\ hist.ok /\ hist.was_full = {1}
  /\ bus.max_queue_size = 2
  /\ bus.consumer[3] = "iter" /\ Ts(bus.queue[3]) = <<hist.ev.ts>>
  /\ Last(bus.queue[1]) = hist.ev

\* C15: the events a subscription has dequeued, followed by those still in
\* its queue, are a subsequence of the matching events published to it, in
\* publish order; when its queue never overflowed they are all of them.
C15_FifoPerSubscriber ==
  \A i \in Subs :
    /\ IsSubsequence(hist.got[i] \o Ts(bus.queue[i]), hist.offered[i])
    /\ i \notin hist.overflowed => hist.got[i] \o Ts(bus.queue[i]) = hist.offered[i]

C15_Witness ==
  /\ hist.op = "get" /\ hist.sub = 1 /\ 1 \in hist.overflowed
  /\ hist.offered[1] = <<ClockStart, ClockStart + 1, ClockStart + 2>>
  /\ hist.got[1] = <<ClockStart + 1, ClockStart + 2>>

\* C16: latest(T) is the last event of type T that publish accepted, or none;
\* calling it returns that value and changes nothing of the bus, whatever the
\* subscriptions, overflows and consumption were.
C16_LatestIsLastAccepted ==
  [][/\ \A t \in EventTypes : latest(bus', t) = hist'.accepted[t]
     /\ hist'.op = "latest"
          => (bus' = bus /\ hist'.ret = hist.accepted[hist'.ev.type])]_vars

C16_Witness ==
  /\ hist.op = "latest" /\ hist.ev.type = "gesture"
  /\ hist.ret.ts = ClockStart /\ hist.ret.type = "gesture"
  /\ bus.latest["gaze"].ts = ClockStart + 1
  /\ \A i \in Subs : bus.consumer[i] = "new"

\* C17: once the bus is closed it stays closed, a publish raises nothing and
\* changes nothing of the bus, the latest cache keeps its values and no queue
\* gains an event.
C17_ClosedIsTerminal ==
  [][bus.closed
       => /\ bus'.closed
          /\ bus'.latest = bus.latest
          /\ \A i \in Subs : Len(bus'.queue[i]) <= Len(bus.queue[i])
          /\ hist'.op = "publish" => (hist'.ok /\ bus' = bus)]_vars

C17_Witness ==
  /\ hist.op = "publish" /\ bus.closed /\ hist.ev.type = "gesture"
  /\ bus.latest["gesture"].ts = ClockStart
  /\ hist.ev.ts = ClockStart + 1
  /\ bus.consumer[1] = "iter" /\ bus.subscribers["gesture"] = <<1>>

\* C18: publish_threadsafe called while no loop is bound raises, and leaves the
\* bus as it was: nothing is handed to the loop, no queue and no latest entry
\* changes.
C18_ThreadsafeNeedsLoop ==
  [][(hist'.op = "publish_threadsafe" /\ ~bus.loop) => (~hist'.ok /\ bus' = bus)]_vars

C18_Witness ==
  /\ hist.op = "publish_threadsafe" /\ ~hist.ok /\ ~bus.loop /\ ~bus.closed
  /\ hist.ev.type = "gesture"
  /\ bus.subscribers["gesture"] = <<2, 1>> /\ bus.queue[1] = <<>>
  /\ bus.latest["gesture"] = NoEvent /\ bus.scheduled = <<>>

\* C19: once the bus is closed, every subscription that is consuming
\* eventually ends its consumption.
C19_SubscribersEndAfterClose ==
  \A i \in Subs : (bus.closed /\ bus.consumer[i] = "iter") ~> (bus.consumer[i] # "iter")

\* C20: when a consumer stops, no exception is raised, its queue is in no list
\* of the registry afterwards, and the queues of the other subscriptions are
\* as they were, whether the bus is open or closed.
C20_StopDeregisters ==
  [][hist'.op = "stop"
       => /\ hist'.ok
          /\ \A k \in Keys : hist'.sub \notin Range(bus'.subscribers[k])
          /\ \A j \in Subs \ {hist'.sub} : bus'.queue[j] = bus.queue[j]]_vars

(* ------------- claims about the Safety State and the drag -------------- *)

\* C21: after set_mode(m), armed is true when m is ARMED in any letter case and
\* false for every other m, whatever the state before.
C21_SetModeSetsArmed ==
  [][hist'.op = "set_mode" => guard'.armed = (Upper(hist'.ev.name) = "ARMED")]_vars

\* C22: set_mode(m) changes no field but armed, a second set_mode(m) would
\* leave the state it produced as it is, and a set_mode(m) that directly
\* follows a set_mode(m) changes nothing.
C22_SetModeIdempotent ==
  [][hist'.op = "set_mode"
       => /\ guard' = [guard EXCEPT !.armed = guard'.armed]
          /\ set_mode(guard', hist'.ev.name) = guard'
          /\ hist'.again => guard' = guard]_vars

C22_Witness ==
  /\ hist.op = "set_mode" /\ hist.again /\ hist.ev.name = "SAFE"
  /\ ~guard.armed /\ guard.emergency /\ guard.drag_active /\ guard.last_click_ts > 0

\* C23: emergency stays true through every call but clear_emergency;
\* emergency_stop sets emergency and clears armed; clear_emergency changes
\* only emergency; armed becomes true only through set_mode with ARMED, so
\* after emergency_stop and clear_emergency with no such call the action-class
\* intents are still rejected.
C23_EmergencySticky ==
  [][/\ (guard.emergency /\ hist'.op # "clear_emergency") => guard'.emergency
     /\ hist'.op = "emergency_stop" => (guard'.emergency /\ ~guard'.armed)
     /\ hist'.op = "clear_emergency" => guard' = [guard EXCEPT !.emergency = FALSE]
     /\ (~guard.armed /\ guard'.armed)
          => (hist'.op = "set_mode" /\ Upper(hist'.ev.name) = "ARMED")
     /\ (hist'.phase = "cleared" /\ hist'.op = "approve"
         /\ Upper(hist'.ev.name) \in ActionClass) => ~hist'.ok]_vars

C23_Witness ==
  /\ hist.phase = "cleared" /\ hist.op = "approve" /\ hist.ev.name = "CLICK"
  /\ hist.ev.confidence = 60 /\ ~guard.emergency /\ ~guard.armed /\ ~hist.ok

\* C24: the guard's drag_active is true exactly when the last approved intent
\* among DRAG_START, DRAG_STOP and CANCEL was a DRAG_START.
C24_DragActiveTracksLifecycle == guard.drag_active = hist.drag_open

\* entry of a log: approve returned true for an intent named what
Approved(log, what) == \E k \in DOMAIN log : log[k].op = "approve" /\ log[k].what = what /\ log[k].ok

\* entry of a log: the actuator method what was called
Called(log, what) == \E k \in DOMAIN log : log[k].op = "call" /\ log[k].what = what

\* entry of a log: the button was pressed ("press") or released ("release")
Button(log, what) == \E k \in DOMAIN log : log[k].op = "mouse" /\ log[k].what = what

\* the last step handled a gesture event; its name in upper case
GestureHandled == hist'.op = "handle" /\ hist'.ev.type = "gesture"

\* C25: every approved DRAG_START leaves the guard's drag_active true and the
\* button held, and presses the button only when it was not held already; a
\* drag-stop called with no drag in progress releases nothing and leaves the
\* actuator as it was.
C25_DragStartIdempotent ==
  [][hist'.op = "handle"
       => /\ Approved(hist'.log, "DRAG_START")
               => /\ guard'.drag_active
                  /\ Called(hist'.log, "drag_start")
                  /\ mouse'.dragging
                  /\ Button(hist'.log, "press") <=> ~mouse.dragging
          /\ (Called(hist'.log, "drag_stop") /\ ~mouse.dragging)
               => (~Button(hist'.log, "release") /\ mouse' = mouse)]_vars

C25_Witness ==
  /\ Handled("gesture", "PINCH") /\ Approved(hist.log, "DRAG_START")
  /\ Called(hist.log, "drag_start") /\ ~Button(hist.log, "press")
  /\ mouse.dragging /\ guard.drag_active /\ eng.drag_active

\* C26: handling OPEN_PALM while the actuator holds the button calls the
\* actuator's drag-stop and leaves the button released, in every guard state.
C26_ToggleReleasesDrag ==
  [][(GestureHandled /\ Upper(hist'.ev.name) = "OPEN_PALM" /\ mouse.dragging)
       => (Called(hist'.log, "drag_stop") /\ ~mouse'.dragging)]_vars

\* C27: after the engine has handled an event its local drag flag equals the
\* guard's drag_active.
C27_DragFlagsAgree == hist.op = "handle" => eng.drag_active = guard.drag_active

\* C28: in HAND mode with the local drag flag set, a gesture event named
\* neither PINCH nor OPEN_PALM submits DRAG_STOP, and when it is approved the
\* actuator's drag-stop is called and the local drag flag is cleared.
C28_LeavingPinchStopsDrag ==
  [][(/\ GestureHandled /\ Upper(hist'.ev.name) \notin {"PINCH", "OPEN_PALM"}
      /\ eng.control_mode = "HAND" /\ eng.drag_active)
       => /\ hist'.log # <<>>
          /\ hist'.log[1].op = "approve" /\ hist'.log[1].what = "DRAG_STOP"
          /\ hist'.log[1].ok => (Called(hist'.log, "drag_stop") /\ ~eng'.drag_active)]_vars

\* C29: in HAND mode a gesture event whose name is not PINCH leaves the pinch
\* hold timer reset, so the next PINCH starts a fresh hold window.
C29_NonPinchResetsPinchTimer ==
  [][(GestureHandled /\ Upper(hist'.ev.name) # "PINCH" /\ eng.control_mode = "HAND")
       => eng'.pinch_start_ts = None]_vars

\* the pinch of the engine has been held for drag_hold_ms at the current time
PinchHeld ==
  clock - (IF eng.pinch_start_ts = None THEN clock ELSE eng.pinch_start_ts) >= drag_hold_ms

\* C30: a PINCH event handled in HAND mode with no local drag and the hold
\* time reached submits exactly one intent, a DRAG_START; when it is rejected
\* the local drag flag stays false and the pinch timer is kept (so the next
\* PINCH submits again), and when it is approved the local drag flag is set.
C30_RejectedDragStartRetried ==
  [][(/\ GestureHandled /\ Upper(hist'.ev.name) = "PINCH"
      /\ eng.control_mode = "HAND" /\ ~eng.drag_active /\ PinchHeld)
       => /\ Submitted(hist'.log) = {1}
          /\ hist'.log[1].what = "DRAG_START"
          /\ eng'.pinch_start_ts = eng.pinch_start_ts
          /\ eng'.drag_active = hist'.log[1].ok]_vars

C30_Witness ==
  /\ Handled("gesture", "PINCH") /\ hist.run_rejected
  /\ Approved(hist.log, "DRAG_START") /\ eng.drag_active
  /\ clock - eng.pinch_start_ts = drag_hold_ms

(* ---------------------------- C31 .. C40 ------------------------------- *)

\* the intents named what that a handler submitted to the guard in a log
SubmittedNamed(log, what) ==
  {k \in DOMAIN log : log[k].op = "approve" /\ log[k].what = what}

\* the gesture names that take the release branch and are not PINCH
ReleaseNames == {"POINT", "NONE", "UNKNOWN"}

\* C31: in HAND mode with no drag in flight, a gesture other than PINCH,
\* FIST and OPEN_PALM submits exactly one CLICK when the gesture event before
\* it was a PINCH, and no CLICK otherwise
C31_ReleaseAfterShortPinchClicks ==
  [][(/\ GestureHandled
      /\ Upper(hist'.ev.name) \in ReleaseNames
      /\ eng.control_mode = "HAND"
      /\ ~eng.drag_active)
     => Cardinality(SubmittedNamed(hist'.log, "CLICK"))
          = (IF hist.run_first # None THEN 1 ELSE 0)]_vars

C31_Witness ==
  /\ Handled("gesture", "NONE")
  /\ eng.control_mode = "HAND"
  /\ eng.pinch_start_ts = None
  /\ hist.log # <<>>
  /\ hist.log[1].op = "approve"
  /\ hist.log[1].what = "CLICK"
  /\ hist.log[1].intent.meta.mode = NoStr
  /\ hist.log[1].ok

\* C32: a FIST gesture in HAND mode starts the fist timer when it is unset;
\* once the timer has run fist_hold_ms it submits exactly one CLICK marked
\* PRECISE and clears the timer, otherwise it submits nothing and keeps the
\* timer; two clicks of one run of FIST events are at least fist_hold_ms apart
C32_FistClicksPreciseEveryHold ==
  [][(/\ GestureHandled
      /\ Upper(hist'.ev.name) = "FIST"
      /\ eng.control_mode = "HAND")
     => IF clock - (IF eng.fist_start_ts = None THEN clock ELSE eng.fist_start_ts)
             >= fist_hold_ms
        THEN /\ Len(hist'.log) >= 1
             /\ SubmittedNamed(hist'.log, "CLICK") = {1}
             /\ Submitted(hist'.log) = {1}
             /\ hist'.log[1].intent.meta.mode = "PRECISE"
             /\ eng'.fist_start_ts = None
             /\ (hist.fist_click_ts = None \/ clock - hist.fist_click_ts >= fist_hold_ms)
        ELSE /\ hist'.log = <<>>
             /\ eng'.fist_start_ts
                  = (IF eng.fist_start_ts = None THEN clock ELSE eng.fist_start_ts)]_vars

C32_Witness ==
  /\ Handled("gesture", "FIST")
  /\ eng.control_mode = "HAND"
  /\ hist.fist_clicks >= 2
  /\ hist.fist_click_ts = clock
  /\ hist.log[1].what = "CLICK"
  /\ hist.log[1].intent.meta.mode = "PRECISE"
  /\ eng.fist_start_ts = None

\* C33: in EYE mode a gesture other than OPEN_PALM submits nothing and
\* changes nothing but the remembered last gesture
C33_EyeModeIgnoresGestures ==
  [][(/\ GestureHandled
      /\ Upper(hist'.ev.name) # "OPEN_PALM"
      /\ eng.control_mode = "EYE")
     => /\ hist'.log = <<>>
        /\ hist'.ok
        /\ eng' = [eng EXCEPT !.last_gesture = Upper(hist'.ev.name)]
        /\ guard' = guard
        /\ mouse' = mouse]_vars

C33_Witness ==
  /\ Handled("gesture", "PINCH")
  /\ eng.control_mode = "EYE"
  /\ eng.last_gesture = "PINCH"
  /\ eng.pinch_start_ts = None
  /\ guard.armed
  /\ ~guard.emergency
  /\ hist.log = <<>>

\* the entries of a log that are actuator operations: the methods the engine
\* called and the button presses and releases they made
Actuated(log) == {k \in DOMAIN log : log[k].op \in {"call", "mouse"}}

\* C35: whatever event the engine handles, every actuator operation it makes
\* is made with the guard armed and not in emergency, except a drag-stop (and
\* its button release) for a CANCEL intent, which needs no emergency only
C35_ActuatorOnlyWhenArmed ==
  [][hist'.op = "handle"
       => \A k \in Actuated(hist'.log) :
             \/ guard.armed /\ ~guard.emergency
             \/ /\ ~guard.emergency
                /\ hist'.log[k].what \in {"drag_stop", "release"}
                /\ hist'.log[k].intent.name = "CANCEL"]_vars

C35_Witness ==
  /\ Handled("gesture", "OPEN_PALM")
  /\ ~guard.armed
  /\ ~guard.emergency
  /\ Approved(hist.log, "CANCEL")
  /\ Called(hist.log, "drag_stop")
  /\ Button(hist.log, "release")
  /\ ~mouse.dragging

\* C37: whenever the engine's local drag flag is set, the actuator is holding
\* the button
C37_LocalDragImpliesButtonHeld ==
  eng.drag_active => mouse.dragging

C37_Witness ==
  /\ Handled("gesture", "PINCH")
  /\ Approved(hist.log, "DRAG_START")
  /\ Button(hist.log, "press")
  /\ eng.drag_active
  /\ mouse.dragging

\* C38: whenever control_mode is EYE, the pinch timer and the fist timer are
\* unset and the local drag flag is false
C38_EyeModeHasNoTimersNoDrag ==
  eng.control_mode = "EYE"
    => /\ eng.pinch_start_ts = None
       /\ eng.fist_start_ts = None
       /\ ~eng.drag_active

C38_Witness ==
  /\ Handled("gesture", "OPEN_PALM")
  /\ eng.control_mode = "EYE"
  /\ hist.log # <<>>
  /\ hist.log[1].ok
  /\ Called(hist.log, "drag_stop")
  /\ guard.armed
  /\ eng.pinch_start_ts = None
  /\ eng.fist_start_ts = None
  /\ ~eng.drag_active

\* C36: an approve call that returns false leaves the Safety State as it was;
\* one that returns true leaves armed and emergency as they were and changes
\* no field but the one of the intent's class: last_click_ts for a click-class
\* name, last_scroll_ts for SCROLL, drag_active for DRAG_START and DRAG_STOP
C36_ApproveFrame ==
  [][hist'.op = "approve"
       => IF ~hist'.ok THEN guard' = guard
          ELSE /\ guard'.armed = guard.armed
               /\ guard'.emergency = guard.emergency
               /\ (Upper(hist'.ev.name) \notin ClickClass
                     => guard'.last_click_ts = guard.last_click_ts)
               /\ (Upper(hist'.ev.name) # "SCROLL"
                     => guard'.last_scroll_ts = guard.last_scroll_ts)
               /\ (Upper(hist'.ev.name) \notin {"DRAG_START", "DRAG_STOP"}
                     => guard'.drag_active = guard.drag_active)]_vars

C36_Witness ==
  /\ hist.op = "approve"
  /\ hist.ev.name = "SCROLL"
  /\ hist.ok
  /\ guard.last_scroll_ts = clock
  /\ guard.last_click_ts # clock
  /\ guard.last_click_ts # 0
  /\ guard.drag_active

\* C39: whenever emergency is true, armed is false
C39_EmergencyImpliesDisarmed ==
  guard.emergency => ~guard.armed

\* C34: an event accepted by publish is put on the queue of every
\* subscription whose subscribe call has returned under a matching key, the
\* ones whose stream has not been awaited yet included
C34_SubscribeRegistersAtCall ==
  [][(hist'.op = "publish" /\ ~bus.closed)
       => \A i \in Subs :
            (bus.consumer[i] \in {"made", "iter"} /\ bus.key[i] \in {hist'.ev.type, Wildcard})
              => hist'.ev \in Range(bus'.queue[i])]_vars

\* C40: when stop has ended after cancelling an engine task that was still
\* running, no exception has left it and the bus is closed
C40_StopClosesBus ==
  (orch.pc \in {"stopped", "raised"} /\ eng.task = "cancelled")
    => (orch.raised = NoStr /\ bus.closed)

====
